---- MODULE Spec2Model ----
(***************************************************************************)
(* Model of the nostr DLC message handler of the wallet crate              *)
(* (wallet/src/nostr_manager.rs): key file handling in                     *)
(* NostrDlcHandler::new, the envelope built by create_dlc_msg_event and    *)
(* read back by parse_dlc_msg_event, and the dispatch of inbound relay     *)
(* notifications to the shared, mutex-guarded contract manager in          *)
(* handle_relay_event / handle_dlc_msg_event.                              *)
(*                                                                         *)
(* Three specifications share the module:                                  *)
(*   SpecRoundTrip  one identity builds an event, identities parse it;     *)
(*   SpecKeystore   repeated NostrDlcHandler::new on per-wallet key files; *)
(*   Spec           handler tasks processing relay notifications.          *)
(***************************************************************************)
EXTENDS Integers, Sequences, FiniteSets, TLC

(***************************************************************************)
(* Bounds of the model.                                                    *)
(***************************************************************************)
\* number of contract ids the messages range over
MaxContractId == 1
\* number of relay notifications delivered to the handler in one run
MaxEvents == 2
\* number of NostrDlcHandler::new invocations in one run
MaxNew == 3
\* length in bytes of a secret key, scaled down from secp256k1's 32
KeyBytes == 2

(***************************************************************************)
(* Results: Rust's Result<T, E> and a panic (an unwrap on an Err).         *)
(***************************************************************************)
Ok(v) == [tag |-> "Ok", val |-> v]

Err(e) == [tag |-> "Err", val |-> e]

Panic(e) == [tag |-> "Panic", val |-> e]

IsOk(r) == r.tag = "Ok"

IsErr(r) == r.tag = "Err"

IsPanic(r) == r.tag = "Panic"

\* Option<T>: None carries a default of the type, never read
NoneOf(d) == [some |-> FALSE, v |-> d]

Some(v) == [some |-> TRUE, v |-> v]

(***************************************************************************)
(* Byte strings and the u16 wire integers of lightning::util::ser.         *)
(***************************************************************************)
\* u16::encode / Writeable for u16: two bytes, big endian
EncodeU16(n) == << (n \div 256) % 256, n % 256 >>

\* Readable for u16 on a cursor: fails on fewer than two bytes
ReadU16(bytes) ==
    IF Len(bytes) < 2
    THEN Err("ShortRead")
    ELSE Ok([val |-> bytes[1] * 256 + bytes[2], rest |-> SubSeq(bytes, 3, Len(bytes))])

(***************************************************************************)
(* base64 (the base64 crate, standard alphabet with padding).  A text is a *)
(* sequence of symbols: 0..63 are the alphabet, 64 is '=', 65 stands for   *)
(* any character outside the alphabet ('-', '!', ...).                     *)
(***************************************************************************)
PadSym == 64

BadSym == 65

RECURSIVE base64_encode(_)
base64_encode(bytes) ==
    IF bytes = << >> THEN << >>
    ELSE IF Len(bytes) = 1 THEN
        LET n == bytes[1] * 65536
        IN  << n \div 262144, (n \div 4096) % 64, PadSym, PadSym >>
    ELSE IF Len(bytes) = 2 THEN
        LET n == bytes[1] * 65536 + bytes[2] * 256
        IN  << n \div 262144, (n \div 4096) % 64, (n \div 64) % 64, PadSym >>
    ELSE
        LET n == bytes[1] * 65536 + bytes[2] * 256 + bytes[3]
        IN  << n \div 262144, (n \div 4096) % 64, (n \div 64) % 64, n % 64 >>
                \o base64_encode(SubSeq(bytes, 4, Len(bytes)))

\* one group of four symbols; last = it is the final group of the text
DecodeQuad(q, last) ==
    IF q[1] > 63 \/ q[2] > 63 THEN Err("InvalidByte")
    ELSE IF q[3] = PadSym /\ q[4] = PadSym THEN
        IF last /\ q[2] % 16 = 0
        THEN Ok(<< q[1] * 4 + q[2] \div 16 >>)
        ELSE Err("InvalidLastSymbol")
    ELSE IF q[3] > 63 THEN Err("InvalidByte")
    ELSE IF q[4] = PadSym THEN
        IF last /\ q[3] % 4 = 0
        THEN Ok(<< q[1] * 4 + q[2] \div 16, (q[2] % 16) * 16 + q[3] \div 4 >>)
        ELSE Err("InvalidLastSymbol")
    ELSE IF q[4] > 63 THEN Err("InvalidByte")
    ELSE Ok(<< q[1] * 4 + q[2] \div 16,
               (q[2] % 16) * 16 + q[3] \div 4,
               (q[3] % 4) * 64 + q[4] >>)

RECURSIVE base64_decode(_)
base64_decode(text) ==
    IF text = << >> THEN Ok(<< >>)
    ELSE IF Len(text) < 4 THEN Err("InvalidLength")
    ELSE
        LET q == DecodeQuad(SubSeq(text, 1, 4), Len(text) = 4)
            rest == base64_decode(SubSeq(text, 5, Len(text)))
        IN  IF IsErr(q) THEN q
            ELSE IF IsErr(rest) THEN rest
            ELSE Ok(q.val \o rest.val)

(***************************************************************************)
(* DLC messages and their wire form (dlc_messages): u16 type id, then the  *)
(* body.  The body of a message is scaled down to its contract id byte.    *)
(***************************************************************************)
ContractIds == 1..MaxContractId

MessageTypes == {"Offer", "Accept", "Sign"}

Messages == [type : MessageTypes, cid : ContractIds]

\* Message::type_id (dlc_messages OFFER_TYPE, ACCEPT_TYPE, SIGN_TYPE)
type_id(msg) ==
    CASE msg.type = "Offer"  -> 42778
      [] msg.type = "Accept" -> 42780
      [] msg.type = "Sign"   -> 42782

\* Message::encode: the body without the type id
encode(msg) == << msg.cid >>

NoMsg == [type |-> "none", cid |-> 0]

WireMsg(m) == [frame |-> "Message", msg |-> m, data |-> << >>]

WireSegmentStart(d) == [frame |-> "SegmentStart", msg |-> NoMsg, data |-> d]

WireSegmentChunk(d) == [frame |-> "SegmentChunk", msg |-> NoMsg, data |-> d]

\* the body reader of one message variant: it needs the whole body
ReadBody(type, rest) ==
    IF rest = << >> THEN Err("ShortRead")
    ELSE Ok(Some(WireMsg([type |-> type, cid |-> rest[1]])))

\* dlc_messages::message_handler::read_dlc_message: Ok(None) on a type id it
\* does not know, Err when the body cannot be read
read_dlc_message(msg_type, rest) ==
    CASE msg_type = 42778 -> ReadBody("Offer", rest)
      [] msg_type = 42780 -> ReadBody("Accept", rest)
      [] msg_type = 42782 -> ReadBody("Sign", rest)
      [] msg_type = 42900 ->
            IF rest = << >> THEN Err("ShortRead") ELSE Ok(Some(WireSegmentStart(rest)))
      [] msg_type = 42902 ->
            IF rest = << >> THEN Err("ShortRead") ELSE Ok(Some(WireSegmentChunk(rest)))
      [] OTHER -> Ok(NoneOf(WireMsg(NoMsg)))

\* the bytes create_dlc_msg_event puts on the wire: a message without its
\* type id (what a handler that forgot the prefix would send)
WireBytesNoTypeId(msg) == encode(msg)

\* the bytes create_dlc_msg_event puts on the wire for a message
WireBytes(msg) == EncodeU16(type_id(msg)) \o encode(msg)

(***************************************************************************)
(* Identities and the NIP-04 envelope.  A secret key is named by its       *)
(* owner; the ECDH secret of a secret key and a public key is the          *)
(* unordered pair of the two owners.                                       *)
(***************************************************************************)
Identities == {"me", "alice", "bob"}

\* Keys::public_key: the x-only public key of a secret key
XOnly(sk) == [x |-> sk]

\* a lift that picks the odd point of the x coordinate
LiftOdd(xonly) == [x |-> xonly.x, parity |-> "Odd"]

\* XOnlyPublicKey::public_key(Parity::Even) re-read by PublicKey::from_slice
LiftEven(xonly) == [x |-> xonly.x, parity |-> "Even"]

SharedKey(sk, pk) == {sk, pk.x}

\* nip04::encrypt: the ciphertext and its "?iv=" part
encrypt(sk, pk, text) == [iv |-> TRUE, key |-> SharedKey(sk, pk), pt |-> text]

\* nip04::decrypt: fails on a content without "?iv=" and on a wrong key
decrypt(sk, pk, content) ==
    IF ~content.iv THEN Err("InvalidContentFormat")
    ELSE IF content.key # SharedKey(sk, pk) THEN Err("WrongBlockMode")
    ELSE Ok(content.pt)

(***************************************************************************)
(* Events.                                                                 *)
(***************************************************************************)
DLC_MESSAGE_KIND == "TextNote"

NoKey == [x |-> "none"]

NoId == [hash |-> << >>]

\* Tag::PubKey(to, None)
PTag(to) == [t |-> "p", pk |-> to, id |-> NoId]

\* Tag::Event(id, None, None)
ETag(id) == [t |-> "e", pk |-> NoKey, id |-> id]

\* EventBuilder::to_event: the id is the hash of the signed fields
EventIdOf(pubkey, kind, tags, content) == [hash |-> << pubkey, kind, tags, content >>]

ToEvent(sk, kind, tags, content) ==
    [id |-> EventIdOf(XOnly(sk), kind, tags, content),
     pubkey |-> XOnly(sk), kind |-> kind, tags |-> tags, content |-> content]

\* tags that leave the reference out
ReplyTagsNoRef(to, event_id) == << PTag(to) >>

\* the tags of an outbound event: the "p" tag, then the "e" tag if any
ReplyTags(to, event_id) ==
    << PTag(to) >> \o (IF event_id.some THEN << ETag(event_id.v) >> ELSE << >>)

\* an outbound event built with the encrypted-direct-message kind
EventBuilderDirectMessage(self, tags, content) ==
    ToEvent(self, "EncryptedDirectMessage", tags, content)

\* EventBuilder::new(DLC_MESSAGE_KIND, content, &tags).to_event(&self.keys)
EventBuilder(self, tags, content) == ToEvent(self, DLC_MESSAGE_KIND, tags, content)

\* NostrDlcHandler::create_dlc_msg_event
create_dlc_msg_event(self, to, event_id, msg) ==
    LET bytes == WireBytes(msg)
        content == encrypt(self, to, base64_encode(bytes))
    IN  EventBuilder(self, ReplyTags(to, event_id), content)

\* a parser that unwraps the decryption as it unwraps the wire reads
parse_dlc_msg_event_unwrap_decrypt(self, event) ==
    LET dec == decrypt(self, event.pubkey, event.content)
    IN  IF IsErr(dec) THEN Panic("unwrap: decrypt")
        ELSE
        LET bytes == base64_decode(dec.val)
        IN  IF IsErr(bytes) THEN bytes
            ELSE
            LET msg_type == ReadU16(bytes.val)
            IN  IF IsErr(msg_type) THEN Panic("unwrap: msg_type")
                ELSE
                LET wire == read_dlc_message(msg_type.val.val, msg_type.val.rest)
                IN  IF IsErr(wire) THEN Panic("unwrap: read_dlc_message")
                    ELSE IF ~wire.val.some THEN Err("Couldn't read DLC message.")
                    ELSE IF wire.val.v.frame = "Message" THEN Ok(wire.val.v.msg)
                    ELSE Err("Blah blah, something with a wire")

\* NostrDlcHandler::parse_dlc_msg_event
parse_dlc_msg_event(self, event) ==
    LET dec == decrypt(self, event.pubkey, event.content)
    IN  IF IsErr(dec) THEN dec
        ELSE
        LET bytes == base64_decode(dec.val)
        IN  IF IsErr(bytes) THEN bytes
            ELSE
            LET msg_type == ReadU16(bytes.val)
            IN  IF IsErr(msg_type) THEN Panic("unwrap: msg_type")
                ELSE
                LET wire == read_dlc_message(msg_type.val.val, msg_type.val.rest)
                IN  IF IsErr(wire) THEN Panic("unwrap: read_dlc_message")
                    ELSE IF ~wire.val.some THEN Err("Couldn't read DLC message.")
                    ELSE IF wire.val.v.frame = "Message" THEN Ok(wire.val.v.msg)
                    ELSE Err("Blah blah, something with a wire")

(***************************************************************************)
(* State.                                                                  *)
(***************************************************************************)
VARIABLES
    rt,         \* round trip: the sender, recipient, message, event and parses
    keyFile,    \* per wallet name: the nostr_keys file
    newLog,     \* the outcomes of the NostrDlcHandler::new invocations so far
    pc,         \* per handler task: where it is in handle_relay_event
    cur,        \* per handler task: the event being handled
    ret,        \* per handler task: what the last call returned
    lock,       \* the holder of the manager mutex
    manager,    \* the contract manager behind the mutex
    trace,      \* what the manager was handed and what it replied, in order
    outbox,     \* the events the caller published on the transport
    delivered,  \* per handler task: the notifications handed to it, in order
    sub,        \* the subscription of listen(): filter, relay store, received
    party       \* the wallet's address indexes and the last create_party_params

rtVars == << rt >>

keyVars == << keyFile, newLog >>

handlerVars == << pc, cur, ret, lock, manager, trace, outbox, delivered >>

subVars == << sub >>

partyVars == << party >>

vars == << rt, keyFile, newLog, pc, cur, ret, lock, manager, trace, outbox, delivered,
          sub, party >>

(***************************************************************************)
(* NostrDlcHandler::new and the key file.                                  *)
(***************************************************************************)
WalletNames == {"w1", "w2"}

NoFile == [exists |-> FALSE, bytes |-> << >>]

FileOf(bytes) == [exists |-> TRUE, bytes |-> bytes]

KeyByteStrings == [1..KeyBytes -> {0, 1}]

\* SecretKey::from_slice: the right length and a scalar that is not zero
from_slice(bytes) ==
    IF Len(bytes) = KeyBytes /\ \E i \in 1..Len(bytes) : bytes[i] # 0
    THEN Ok(bytes)
    ELSE Err("InvalidSecretKey")

\* Keys::generate: any valid secret
FreshSecrets == {b \in KeyByteStrings : IsOk(from_slice(b))}

\* what the file system does to one call: read fails or not, File::create
\* fails or not, write_all stops after `written` bytes
IoOutcomes == [read : BOOLEAN, create : BOOLEAN, written : 0..KeyBytes]

\* std::fs::write(keys_file, bytes): create (truncate), then write_all
fs_write(bytes, io) ==
    IF ~io.create THEN [res |-> Err("io"), file |-> NoFile]
    ELSE IF io.written < Len(bytes)
    THEN [res |-> Err("io"), file |-> FileOf(SubSeq(bytes, 1, io.written))]
    ELSE [res |-> Ok(bytes), file |-> FileOf(bytes)]

\* the file operation the call makes (the read of an existing file, the
\* write of a new one) fails
fs_failed(file, fresh, io) ==
    IF file.exists THEN ~io.read ELSE IsErr(fs_write(fresh, io).res)

\* a key loader that takes a fresh key whenever the stored one is unusable
load_keys_regenerating(file, fresh, io) ==
    IF file.exists /\ io.read /\ IsOk(from_slice(file.bytes))
    THEN [res |-> Ok(file.bytes), file |-> file]
    ELSE fs_write(fresh, io)

\* a key loader that never looks at the file
load_keys_always_fresh(file, fresh, io) == fs_write(fresh, io)

\* lines 32-43 of new: the keys of the wallet and the file afterwards
load_keys(file, fresh, io) ==
    IF file.exists
    THEN IF ~io.read THEN [res |-> Err("io"), file |-> file]
         ELSE [res |-> from_slice(file.bytes), file |-> file]
    ELSE fs_write(fresh, io)

\* NostrDlcHandler::new: the keys, then relay_url.parse()
new(file, url_ok, fresh, io) ==
    LET k == load_keys(file, fresh, io)
    IN  IF IsErr(k.res) THEN k
        ELSE IF ~url_ok THEN [res |-> Err("url"), file |-> k.file]
        ELSE [res |-> Ok(XOnly(k.res.val)), file |-> k.file]

New(w, url_ok, fresh, io) ==
    /\ Len(newLog) < MaxNew
    /\ LET r == new(keyFile[w], url_ok, fresh, io)
       IN  /\ keyFile' = [keyFile EXCEPT ![w] = r.file]
           /\ newLog' = Append(newLog,
                  [wallet |-> w, ok |-> IsOk(r.res),
                   identity |-> IF IsOk(r.res) THEN r.res.val ELSE NoKey,
                   err |-> IF IsOk(r.res) THEN "" ELSE r.res.val,
                   failed |-> fs_failed(keyFile[w], fresh, io)])
    /\ UNCHANGED << rtVars, handlerVars, subVars, partyVars >>

(***************************************************************************)
(* Round trip of one message through create_dlc_msg_event and              *)
(* parse_dlc_msg_event.                                                    *)
(***************************************************************************)
NoEvent == [id |-> NoId, pubkey |-> NoKey, kind |-> "none", tags |-> << >>,
            content |-> [iv |-> FALSE, key |-> {}, pt |-> << >>]]

NoRef == NoneOf(NoId)

\* some event id an outbound event may refer to
SomeEventId == EventIdOf(XOnly("bob"), DLC_MESSAGE_KIND, << >>, NoEvent.content)

RtCreate(event_id) ==
    /\ rt.stage = "rt"
    /\ rt.event = NoEvent
    /\ rt' = [rt EXCEPT !.ref = event_id,
                        !.event = create_dlc_msg_event(rt.from, XOnly(rt.to), event_id, rt.msg)]
    /\ UNCHANGED << keyVars, handlerVars, subVars, partyVars >>

RtParse(by) ==
    /\ rt.stage = "rt"
    /\ rt.event # NoEvent
    /\ \A p \in rt.parsed : p.by # by
    /\ LET r == parse_dlc_msg_event(by, rt.event)
       IN  rt' = [rt EXCEPT !.parsed = @ \cup
                   {[by |-> by, ok |-> IsOk(r), msg |-> IF IsOk(r) THEN r.val ELSE NoMsg]}]
    /\ UNCHANGED << keyVars, handlerVars, subVars, partyVars >>

(***************************************************************************)
(* The relay notifications a handler can be handed.  The subscription      *)
(* filter of listen() selects by kind alone, so events of any sender, any  *)
(* recipient and any content arrive.                                       *)
(***************************************************************************)
Self == "me"

Peers == Identities \ {Self}

Tasks == {"t1", "t2"}

\* "not-base64!!"
NotBase64Text == << 39, 40, 45, BadSym, 27, 26, 44, 30, 58, 56, BadSym, BadSym >>

\* a content that is no NIP-04 ciphertext: it has no "?iv=" part
MalformedContent == [iv |-> FALSE, key |-> {}, pt |-> NotBase64Text]

RawEvent(from, kind, content) == ToEvent(from, kind, << PTag(XOnly(Self)) >>, content)

\* an event of `from` for the handler whose payload is base64 of `bytes`
WireEvent(from, bytes) ==
    RawEvent(from, DLC_MESSAGE_KIND, encrypt(from, XOnly(Self), base64_encode(bytes)))

\* the message every segmented delivery of the model carries
SegmentedMsg == [type |-> "Offer", cid |-> 1]

\* SegmentStart and SegmentChunk frames that together carry WireBytes(m)
SegmentStartBytes(m) == EncodeU16(42900) \o SubSeq(WireBytes(m), 1, 2)

SegmentChunkBytes(m) == EncodeU16(42902) \o SubSeq(WireBytes(m), 3, Len(WireBytes(m)))

\* payloads the wire decoder does not turn into a message
ShortPayloads == { << >>, << 167 >> }

TruncatedPayloads == { EncodeU16(type_id(SegmentedMsg)) }

UnknownTypePayloads == { << 0, 1, 1 >> }

\* a peer other than s: the recipient of an event that is not for the handler
OtherPeer(s) == CHOOSE o \in Peers : o # s

ValidEvents == { create_dlc_msg_event(s, XOnly(Self), NoRef, m) : s \in Peers, m \in Messages }

\* the senders of the events that never reach the manager: the handler
\* rejects those by their content alone
BadSenders == {"alice"}

EnvelopeBadEvents ==
    { RawEvent(s, DLC_MESSAGE_KIND, MalformedContent) : s \in BadSenders }
    \cup { RawEvent(s, DLC_MESSAGE_KIND, encrypt(s, XOnly(Self), NotBase64Text)) : s \in BadSenders }
    \cup { create_dlc_msg_event(s, XOnly(OtherPeer(s)), NoRef, SegmentedMsg) : s \in BadSenders }

WireBadEvents ==
    { WireEvent(s, b) : s \in BadSenders,
                        b \in ShortPayloads \cup TruncatedPayloads \cup UnknownTypePayloads }

SegmentEvents ==
    { WireEvent(s, SegmentStartBytes(SegmentedMsg)) : s \in BadSenders }
    \cup { WireEvent(s, SegmentChunkBytes(SegmentedMsg)) : s \in BadSenders }

\* events of another kind: one whose content would not decrypt, one whose
\* content is a well-formed DLC payload
OtherKindEvents ==
    { RawEvent("alice", "Metadata", MalformedContent),
      RawEvent("bob", "EncryptedDirectMessage",
               encrypt("bob", XOnly(Self), base64_encode(WireBytes(SegmentedMsg)))) }

InboundEvents ==
    ValidEvents \cup EnvelopeBadEvents \cup WireBadEvents \cup SegmentEvents \cup OtherKindEvents

\* RelayPoolNotification
Notification(type, event) == [type |-> type, event |-> event]

Notifications ==
    { Notification("Event", e) : e \in InboundEvents }
    \cup { Notification(ty, NoEvent) : ty \in {"RelayStatus", "Stop", "Message"} }

(***************************************************************************)
(* The contract manager behind the mutex (dlc_manager, reached through     *)
(* ErnestDlcManager): per contract id the state of the conversation and    *)
(* the counterparty.                                                       *)
(***************************************************************************)
NoPub == [x |-> "none", parity |-> "Even"]

ContractRecord(state, cp) == [state |-> state, cp |-> cp]

IdleContract == ContractRecord("Idle", NoPub)

MgrOk(reply, contracts) == [tag |-> "Ok", reply |-> reply, state |-> contracts]

MgrErr(contracts) == [tag |-> "Err", reply |-> NoneOf(NoMsg), state |-> contracts]

\* Manager::on_dlc_message: what the call may return and the state it leaves.
\* A call may always fail (storage, validation) and then changes nothing.
on_dlc_message(contracts, msg, from) ==
    { MgrErr(contracts) } \cup
    IF msg.cid \notin DOMAIN contracts THEN { }
    ELSE LET c == contracts[msg.cid]
         IN  CASE msg.type = "Offer" /\ c.state = "Idle" ->
                    { MgrOk(NoneOf(NoMsg),
                            [contracts EXCEPT ![msg.cid] = ContractRecord("OfferReceived", from)]) }
               [] msg.type = "Offer" /\ c.state = "OfferReceived" /\ c.cp = from ->
                    { MgrOk(NoneOf(NoMsg), contracts) }
               [] msg.type = "Accept" /\ c.state = "OfferSent" /\ c.cp = from ->
                    { MgrOk(Some([type |-> "Sign", cid |-> msg.cid]),
                            [contracts EXCEPT ![msg.cid] = ContractRecord("SignSent", from)]) }
               [] msg.type = "Sign" /\ c.state = "AcceptSent" /\ c.cp = from ->
                    { MgrOk(NoneOf(NoMsg),
                            [contracts EXCEPT ![msg.cid] = ContractRecord("Funded", from)]) }
               [] OTHER -> { }

(***************************************************************************)
(* The handler tasks.  A task is one receive loop calling                  *)
(* handle_relay_event for each notification of its stream; the tasks share *)
(* the handler and so the manager mutex.                                   *)
(*   idle      between two calls of handle_relay_event                     *)
(*   lock      in handle_dlc_msg_event, blocked on manager.lock()          *)
(*   manager   holding the guard, before dlc.on_dlc_message                *)
(*   return    holding the guard, the result computed                      *)
(*   publish   returned to the caller with a reply to publish              *)
(*   panicked  unwound by a panic: the task is gone                        *)
(***************************************************************************)
NoHolder == "none"

NoReply == NoneOf(NoEvent)

Ret(tag, reply) == [tag |-> tag, reply |-> reply]

NoCur == [event |-> NoEvent, msg |-> NoMsg, from |-> NoPub, reply |-> NoneOf(NoMsg)]

DeliveredCount == Len(delivered["t1"]) + Len(delivered["t2"])

\* a receive loop that hands over the next notification while the last
\* message is still waiting for the manager
ReadyForNextEarly(t) == pc[t] \in {"idle", "lock"}

\* handle_relay_event is a plain call: the loop has the next notification
\* handled only after the call for the last one has returned
ReadyForNext(t) == pc[t] = "idle"

\* a lock that lets everyone in
LockFreeAlways == TRUE

\* Mutex::lock returns once no one holds the guard
LockFree == lock = NoHolder

\* a guard that outlives the call
LockAfterReturnKept(t) == lock

\* the guard `dlc` is dropped when handle_dlc_msg_event returns
LockAfterReturn(t) == IF lock = t THEN NoHolder ELSE lock

\* a kind check that lets every event through
IsDlcKindAlways(event) == TRUE

\* event.kind != DLC_MESSAGE_KIND, in handle_relay_event and again in
\* handle_dlc_msg_event
IsDlcKind(event) == event.kind = DLC_MESSAGE_KIND

\* a handler that reports the stop of the relay pool as an error
NonEventResultStopIsErr(n) ==
    IF n.type = "Stop" THEN Ret("Err", NoReply) ELSE Ret("Ok", NoReply)

\* the RelayStatus, Stop and `_` arms of handle_relay_event
NonEventResult(n) == Ret("Ok", NoReply)

\* handle_relay_event up to the lock: the match on the notification, the
\* kind checks, parse_dlc_msg_event and the counterparty key
HandleRelayEvent(t, n) ==
    /\ ReadyForNext(t)
    /\ DeliveredCount < MaxEvents
    /\ delivered' = [delivered EXCEPT ![t] = Append(@, n)]
    /\ IF n.type # "Event"
       THEN /\ pc' = [pc EXCEPT ![t] = "idle"]
            /\ cur' = [cur EXCEPT ![t] = [NoCur EXCEPT !.event = n.event]]
            /\ ret' = [ret EXCEPT ![t] = NonEventResult(n)]
       ELSE IF ~IsDlcKind(n.event)
       THEN /\ pc' = [pc EXCEPT ![t] = "idle"]
            /\ cur' = [cur EXCEPT ![t] = [NoCur EXCEPT !.event = n.event]]
            /\ ret' = [ret EXCEPT ![t] = Ret("Ok", NoReply)]
       ELSE LET msg == parse_dlc_msg_event(Self, n.event)
            IN  /\ pc' = [pc EXCEPT ![t] = IF IsOk(msg) THEN "lock"
                                           ELSE IF IsPanic(msg) THEN "panicked"
                                           ELSE "idle"]
                /\ cur' = [cur EXCEPT ![t] =
                             [event |-> n.event,
                              msg |-> IF IsOk(msg) THEN msg.val ELSE NoMsg,
                              from |-> IF IsOk(msg) THEN LiftEven(n.event.pubkey) ELSE NoPub,
                              reply |-> NoneOf(NoMsg)]]
                /\ ret' = [ret EXCEPT ![t] = IF IsOk(msg) THEN Ret("Pending", NoReply)
                                             ELSE Ret(msg.tag, NoReply)]
    /\ UNCHANGED << lock, manager, trace, outbox, rtVars, keyVars, subVars, partyVars >>

\* let mut dlc = self.manager.lock().unwrap()
AcquireLock(t) ==
    /\ pc[t] = "lock"
    /\ LockFree
    /\ lock' = t
    /\ pc' = [pc EXCEPT ![t] = "manager"]
    /\ UNCHANGED << cur, ret, manager, trace, outbox, delivered, rtVars, keyVars, subVars, partyVars >>

TraceCall(t, r) ==
    [op |-> "on_dlc_message", task |-> t, seq |-> Len(delivered[t]),
     msg |-> cur[t].msg, from |-> cur[t].from, res |-> r.tag, replied |-> r.reply.some]

TraceReply(t, m) ==
    [op |-> "reply", task |-> t, seq |-> Len(delivered[t]),
     msg |-> m, from |-> NoPub, res |-> "Ok", replied |-> TRUE]

\* a handler that answers every message, echoing it when the manager is silent
ReplyForAlways(t, r) ==
    Some(create_dlc_msg_event(Self, cur[t].event.pubkey, Some(cur[t].event.id),
                              IF r.reply.some THEN r.reply.v ELSE cur[t].msg))

\* if let Some(msg) = msg_opts { ... return Ok(Some(event)) } Ok(None)
ReplyFor(t, r) ==
    IF r.reply.some
    THEN Some(create_dlc_msg_event(Self, cur[t].event.pubkey, Some(cur[t].event.id), r.reply.v))
    ELSE NoReply

\* dlc.on_dlc_message(&msg, pubkey)? and, on Some(msg), create_dlc_msg_event
\* for the sender of the inbound event, all under the guard
Dispatch(t) ==
    /\ pc[t] = "manager"
    /\ \E r \in on_dlc_message(manager, cur[t].msg, cur[t].from) :
        /\ manager' = r.state
        /\ cur' = [cur EXCEPT ![t].reply = r.reply]
        /\ IF r.tag = "Err"
           THEN /\ ret' = [ret EXCEPT ![t] = Ret("Err", NoReply)]
                /\ trace' = Append(trace, TraceCall(t, r))
           ELSE /\ ret' = [ret EXCEPT ![t] = Ret("Ok", ReplyFor(t, r))]
                /\ trace' = IF ReplyFor(t, r).some
                            THEN trace \o << TraceCall(t, r), TraceReply(t, r.reply.v) >>
                            ELSE Append(trace, TraceCall(t, r))
    /\ pc' = [pc EXCEPT ![t] = "return"]
    /\ UNCHANGED << lock, outbox, delivered, rtVars, keyVars, subVars, partyVars >>

\* the return of handle_dlc_msg_event and handle_relay_event
Return(t) ==
    /\ pc[t] = "return"
    /\ lock' = LockAfterReturn(t)
    /\ pc' = [pc EXCEPT ![t] = IF ret[t].reply.some THEN "publish" ELSE "idle"]
    /\ UNCHANGED << cur, ret, manager, trace, outbox, delivered, rtVars, keyVars, subVars, partyVars >>

\* the caller publishes the event it was returned
Publish(t) ==
    /\ pc[t] = "publish"
    /\ outbox' = Append(outbox, ret[t].reply.v)
    /\ pc' = [pc EXCEPT ![t] = "idle"]
    /\ UNCHANGED << cur, ret, lock, manager, trace, delivered, rtVars, keyVars, subVars, partyVars >>

(***************************************************************************)
(* listen(): the subscription the handler registers with the relay, and    *)
(* the relay that stores the events peers publish and sends the handler    *)
(* those its filter matches.                                               *)
(***************************************************************************)
\* number of events peers publish on the relay in one run
MaxRelayEvents == 2

NoFilter == [kind |-> NoneOf("none"), p |-> NoneOf(NoKey)]

\* NostrDlcHandler::create_dlc_message_filter: Filter::new().kind(..)
create_dlc_message_filter(self) == [kind |-> Some(DLC_MESSAGE_KIND), p |-> NoneOf(NoKey)]

\* a relay's match of an event against a filter: every field the filter
\* sets must be met
FilterMatches(filter, event) ==
    /\ filter.kind.some => event.kind = filter.kind.v
    /\ filter.p.some => PTag(filter.p.v) \in { event.tags[i] : i \in DOMAIN event.tags }

\* the events peers may publish: to the handler, to each other, of any kind
RelayEvents == InboundEvents

SubAtStart == sub = [state |-> "new", filter |-> NoFilter, relay |-> {}, received |-> {}]

\* listen: add_relay (may fail), subscribe with the filter, connect
Listen(relay_ok) ==
    /\ sub.state = "new"
    /\ sub' = IF relay_ok
              THEN [sub EXCEPT !.state = "subscribed", !.filter = create_dlc_message_filter(Self)]
              ELSE [sub EXCEPT !.state = "failed"]
    /\ UNCHANGED << rtVars, keyVars, handlerVars, partyVars >>

\* a peer publishes an event on the relay
RelayStore(e) ==
    /\ e \notin sub.relay
    /\ Cardinality(sub.relay) < MaxRelayEvents
    /\ sub' = [sub EXCEPT !.relay = @ \cup {e}]
    /\ UNCHANGED << rtVars, keyVars, handlerVars, partyVars >>

\* the relay sends the subscriber a stored event its filter matches
RelayDeliver(e) ==
    /\ sub.state = "subscribed"
    /\ e \in sub.relay
    /\ e \notin sub.received
    /\ FilterMatches(sub.filter, e)
    /\ sub' = [sub EXCEPT !.received = @ \cup {e}]
    /\ UNCHANGED << rtVars, keyVars, handlerVars, partyVars >>

(***************************************************************************)
(* ErnestWallet::create_party_params (wallet/src/dlc.rs) and the wallet    *)
(* calls it makes.                                                         *)
(***************************************************************************)
\* number of create_party_params calls in one run
MaxPartyCalls == 3

\* the amounts of the calls: those of test_party_params, and zero
Amounts == {0, 10, 50}

\* what the wallet can supply to one call
WalletOutcomes == [pubkey : BOOLEAN, change : BOOLEAN, external : BOOLEAN]

Address(keychain, index) == [keychain |-> keychain, index |-> index]

\* Address::script_pubkey
script_pubkey(address) == [script_of |-> address]

\* self.get_pubkey()
get_pubkey(w, env) == IF env.pubkey THEN Ok("fund_pubkey") ELSE Err("wallet")

\* self.new_change_address(): the next unused internal address
new_change_address(w, env) ==
    IF env.change
    THEN [res |-> Ok(Address("Internal", w.change)), wallet |-> [w EXCEPT !.change = @ + 1]]
    ELSE [res |-> Err("wallet"), wallet |-> w]

\* self.new_external_address(): the next unused external address
new_external_address(w, env) ==
    IF env.external
    THEN [res |-> Ok(Address("External", w.external)), wallet |-> [w EXCEPT !.external = @ + 1]]
    ELSE [res |-> Err("wallet"), wallet |-> w]

NoParams ==
    [fund_pubkey |-> "none",
     change_script_pubkey |-> script_pubkey(Address("none", 0)),
     payout_script_pubkey |-> script_pubkey(Address("none", 0)),
     change_serial_id |-> 0, payout_serial_id |-> 0, inputs |-> << >>,
     input_amount |-> 0, collateral |-> 0]

PartyResult(ok, params, wallet) == [ok |-> ok, params |-> params, wallet |-> wallet]

\* ErnestWallet::create_party_params
create_party_params_body(w, input_amount, collateral, env) ==
    LET fund_pubkey == get_pubkey(w, env)
    IN  IF IsErr(fund_pubkey) THEN PartyResult(FALSE, NoParams, w)
        ELSE
        LET change == new_change_address(w, env)
        IN  IF IsErr(change.res) THEN PartyResult(FALSE, NoParams, change.wallet)
            ELSE
            LET payout == new_external_address(change.wallet, env)
            IN  IF IsErr(payout.res) THEN PartyResult(FALSE, NoParams, payout.wallet)
                ELSE PartyResult(TRUE,
                        [fund_pubkey |-> fund_pubkey.val,
                         change_script_pubkey |-> script_pubkey(change.res.val),
                         payout_script_pubkey |-> script_pubkey(payout.res.val),
                         change_serial_id |-> 0, payout_serial_id |-> 0,
                         inputs |-> << >>,
                         input_amount |-> input_amount, collateral |-> collateral],
                        payout.wallet)

\* a create_party_params that wants the inputs to cover the collateral
create_party_params_covering(w, input_amount, collateral, env) ==
    IF input_amount < collateral
    THEN PartyResult(FALSE, NoParams, w)
    ELSE create_party_params_body(w, input_amount, collateral, env)

create_party_params(w, input_amount, collateral, env) ==
    create_party_params_body(w, input_amount, collateral, env)

PartyAtStart ==
    party = [wallet |-> [change |-> 0, external |-> 0], calls |-> 0,
             input_amount |-> 0, collateral |-> 0,
             env |-> [pubkey |-> TRUE, change |-> TRUE, external |-> TRUE],
             ok |-> FALSE, params |-> NoParams]

CreatePartyParams(input_amount, collateral, env) ==
    /\ party.calls < MaxPartyCalls
    /\ LET r == create_party_params(party.wallet, input_amount, collateral, env)
       IN  party' = [wallet |-> r.wallet, calls |-> party.calls + 1,
                     input_amount |-> input_amount, collateral |-> collateral,
                     env |-> env, ok |-> r.ok, params |-> r.params]
    /\ UNCHANGED << rtVars, keyVars, handlerVars, subVars >>

(***************************************************************************)
(* Specifications.                                                         *)
(***************************************************************************)
RtOff == [stage |-> "off", from |-> Self, to |-> Self, msg |-> NoMsg,
          ref |-> NoRef, event |-> NoEvent, parsed |-> {}]

KeysAtStart ==
    /\ keyFile = [w \in WalletNames |-> NoFile]
    /\ newLog = << >>

HandlerAtStart ==
    /\ pc = [t \in Tasks |-> "idle"]
    /\ cur = [t \in Tasks |-> NoCur]
    /\ ret = [t \in Tasks |-> Ret("None", NoReply)]
    /\ lock = NoHolder
    /\ trace = << >>
    /\ outbox = << >>
    /\ delivered = [t \in Tasks |-> << >>]

\* the manager handed to new(): each contract untouched or offered by the
\* local user to a peer
ManagerStates ==
    [ContractIds -> {IdleContract, ContractRecord("OfferSent", LiftEven(XOnly("alice")))}]

Init ==
    /\ rt = RtOff
    /\ KeysAtStart
    /\ HandlerAtStart
    /\ SubAtStart
    /\ PartyAtStart
    /\ manager \in ManagerStates

Next ==
    \/ \E t \in Tasks, n \in Notifications : HandleRelayEvent(t, n)
    \/ \E t \in Tasks : AcquireLock(t)
    \/ \E t \in Tasks : Dispatch(t)
    \/ \E t \in Tasks : Return(t)
    \/ \E t \in Tasks : Publish(t)

Spec == Init /\ [][Next]_vars

InitKeystore ==
    /\ rt = RtOff
    /\ KeysAtStart
    /\ HandlerAtStart
    /\ SubAtStart
    /\ PartyAtStart
    /\ manager = [c \in ContractIds |-> IdleContract]

NextKeystore ==
    \E w \in WalletNames, url_ok \in BOOLEAN, fresh \in FreshSecrets, io \in IoOutcomes :
        New(w, url_ok, fresh, io)

SpecKeystore == InitKeystore /\ [][NextKeystore]_vars

\* the handler tasks under a scheduler that lets every thread run: a thread
\* that can take the mutex, is inside the manager call or is returning is
\* not held back for ever
Fairness ==
    \A t \in Tasks :
        /\ WF_vars(AcquireLock(t))
        /\ WF_vars(Dispatch(t))
        /\ WF_vars(Return(t))

\* the notifications that matter to the lock: the events of one peer that
\* reach the manager, which answers them with a reply, with no reply or with
\* an error, and a notification that returns before the lock
LockNotifications ==
    { Notification("Event", e) : e \in { v \in ValidEvents : v.pubkey = XOnly("alice") } }
    \cup { Notification("Stop", NoEvent) }

NextLive ==
    \/ \E t \in Tasks, n \in LockNotifications : HandleRelayEvent(t, n)
    \/ \E t \in Tasks : AcquireLock(t)
    \/ \E t \in Tasks : Dispatch(t)
    \/ \E t \in Tasks : Return(t)
    \/ \E t \in Tasks : Publish(t)

SpecLive == Init /\ [][NextLive]_vars /\ Fairness

InitRoundTrip ==
    /\ rt \in [stage : {"rt"}, from : Identities, to : Identities, msg : Messages,
               ref : {NoRef}, event : {NoEvent}, parsed : {{}}]
    /\ KeysAtStart
    /\ HandlerAtStart
    /\ SubAtStart
    /\ PartyAtStart
    /\ manager = [c \in ContractIds |-> IdleContract]

NextRoundTrip ==
    \/ \E event_id \in {NoRef, Some(SomeEventId)} : RtCreate(event_id)
    \/ \E by \in Identities : RtParse(by)

SpecRoundTrip == InitRoundTrip /\ [][NextRoundTrip]_vars

NextListen ==
    \/ \E relay_ok \in BOOLEAN : Listen(relay_ok)
    \/ \E e \in RelayEvents : RelayStore(e)
    \/ \E e \in RelayEvents : RelayDeliver(e)

SpecListen == InitKeystore /\ [][NextListen]_vars

NextParty ==
    \E input_amount \in Amounts, collateral \in Amounts, env \in WalletOutcomes :
        CreatePartyParams(input_amount, collateral, env)

SpecParty == InitKeystore /\ [][NextParty]_vars

(***************************************************************************)
(* Helpers of the properties.                                              *)
(***************************************************************************)
\* the positions of the trace where the manager was handed the i-th
\* notification of task t
CallsOf(t, i) ==
    { k \in DOMAIN trace :
        trace[k].op = "on_dlc_message" /\ trace[k].task = t /\ trace[k].seq = i }

RepliesOf(t, i) ==
    { k \in DOMAIN trace : trace[k].op = "reply" /\ trace[k].task = t /\ trace[k].seq = i }

\* what parse_dlc_msg_event of the handler makes of each inbound event
ParsedBySelf == [e \in InboundEvents |-> parse_dlc_msg_event(Self, e)]

\* the i-th notification of task t is a DLC event that parses to a message
IsValid(n) ==
    /\ n.type = "Event"
    /\ n.event.kind = DLC_MESSAGE_KIND
    /\ IsOk(ParsedBySelf[n.event])

\* task t is done with its i-th notification
Handled(t, i) == i < Len(delivered[t]) \/ (i = Len(delivered[t]) /\ pc[t] = "idle")

\* the last two notifications of task t are the two segments of
\* SegmentedMsg from sender s, in order
SegmentsDelivered(t, i, s) ==
    /\ i + 1 = Len(delivered[t])
    /\ i >= 1
    /\ delivered[t][i] = Notification("Event", WireEvent(s, SegmentStartBytes(SegmentedMsg)))
    /\ delivered[t][i + 1] = Notification("Event", WireEvent(s, SegmentChunkBytes(SegmentedMsg)))

\* the outcome of the NostrDlcHandler::new call a step makes
LastNew == newLog'[Len(newLog')]

TagsOf(event, kind) == { event.tags[i] : i \in { j \in DOMAIN event.tags : event.tags[j].t = kind } }

(***************************************************************************)
(* C1: a bad wire payload (unknown type tag, truncated, fewer than two     *)
(* bytes) ends the call with an error value for that event and never       *)
(* aborts the handler.                                                     *)
(***************************************************************************)
C1_BadWirePayloadIsDropped ==
    \A t \in Tasks :
        cur[t].event \in WireBadEvents => (ret[t].tag = "Err" /\ pc[t] = "idle")

(***************************************************************************)
(* C2: an event whose content cannot be decrypted or is not base64 makes   *)
(* the call return an error with no reply, the manager neither locked nor  *)
(* invoked for it, and the next valid message of the same sender is        *)
(* dispatched to the manager.                                              *)
(***************************************************************************)
C2_MalformedEnvelopeDropped ==
    \A t \in Tasks :
        /\ cur[t].event \in EnvelopeBadEvents =>
              /\ ret[t] = Ret("Err", NoReply)
              /\ pc[t] = "idle"
              /\ lock # t
              /\ CallsOf(t, Len(delivered[t])) = {}
        /\ \A i \in DOMAIN delivered[t] :
              /\ delivered[t][i].event \in EnvelopeBadEvents
              /\ i + 1 \in DOMAIN delivered[t]
              /\ IsValid(delivered[t][i + 1])
              /\ delivered[t][i + 1].event.pubkey = delivered[t][i].event.pubkey
              /\ Handled(t, i + 1)
              => /\ CallsOf(t, i) = {}
                 /\ \E k \in CallsOf(t, i + 1) :
                       trace[k].msg = ParsedBySelf[delivered[t][i + 1].event].val

C2_Witness ==
    \E t \in Tasks :
        /\ Len(delivered[t]) = 2
        /\ delivered[t][1].event \in EnvelopeBadEvents
        /\ IsValid(delivered[t][2])
        /\ delivered[t][2].event.pubkey = delivered[t][1].event.pubkey
        /\ CallsOf(t, 2) # {}
        /\ pc[t] = "idle"

(***************************************************************************)
(* C3: a task that is publishing a reply does not hold the manager lock:   *)
(* the guard is dropped when handle_dlc_msg_event returns.                 *)
(***************************************************************************)
C3_LockDiscipline == \A t \in Tasks : pc[t] = "publish" => lock # t

C3_Witness == \E t \in Tasks : pc[t] = "publish" /\ ret[t].reply.some

(***************************************************************************)
(* C4: at most one task is inside the manager at any time, and it is the   *)
(* holder of the lock.                                                     *)
(***************************************************************************)
C4_AtMostOneMutator ==
    /\ Cardinality({ t \in Tasks : pc[t] \in {"manager", "return"} }) <= 1
    /\ \A t \in Tasks : pc[t] \in {"manager", "return"} => lock = t

C4_Witness ==
    \E t, u \in Tasks : t # u /\ pc[t] = "manager" /\ pc[u] = "lock"

(***************************************************************************)
(* C5: a reply carries an "e" tag with the id of the inbound event that    *)
(* caused it and a "p" tag with its sender, and no other "e" tag.          *)
(***************************************************************************)
C5_ReplyThreading ==
    /\ \A t \in Tasks :
          ret[t].reply.some =>
              /\ TagsOf(ret[t].reply.v, "e") = { ETag(cur[t].event.id) }
              /\ TagsOf(ret[t].reply.v, "p") = { PTag(cur[t].event.pubkey) }
    /\ \A k \in DOMAIN outbox :
          \E t \in Tasks : \E i \in DOMAIN delivered[t] :
              /\ TagsOf(outbox[k], "e") = { ETag(delivered[t][i].event.id) }
              /\ TagsOf(outbox[k], "p") = { PTag(delivered[t][i].event.pubkey) }
              /\ IsValid(delivered[t][i])

C5_Witness == \E k \in DOMAIN outbox : outbox[k].pubkey = XOnly(Self)

(***************************************************************************)
(* C6: a SegmentStart followed by its SegmentChunk from one sender is      *)
(* reassembled, and the manager is handed the message the segments carry.  *)
(***************************************************************************)
C6_SegmentsReassembled ==
    \A t \in Tasks, s \in Peers, i \in 1..MaxEvents :
        SegmentsDelivered(t, i, s) /\ pc[t] = "idle" =>
            \E k \in DOMAIN trace :
                /\ trace[k].op = "on_dlc_message"
                /\ trace[k].task = t
                /\ trace[k].msg = SegmentedMsg
                /\ trace[k].from = LiftEven(XOnly(s))

(***************************************************************************)
(* C7: two valid messages of one counterparty handed to a receive loop in  *)
(* that order reach the manager in that order, unchanged, and the reply to *)
(* the first is built before the second reaches the manager.               *)
(***************************************************************************)
C7_PerCounterpartyOrdering ==
    \A t \in Tasks : \A i, j \in DOMAIN delivered[t] :
        /\ i < j
        /\ IsValid(delivered[t][i])
        /\ IsValid(delivered[t][j])
        /\ delivered[t][i].event.pubkey = delivered[t][j].event.pubkey
        => /\ \E ki \in CallsOf(t, i) :
                 trace[ki].msg = ParsedBySelf[delivered[t][i].event].val
           /\ \A kj \in CallsOf(t, j) :
                 /\ trace[kj].msg = ParsedBySelf[delivered[t][j].event].val
                 /\ \E ki \in CallsOf(t, i) :
                       /\ ki < kj
                       /\ trace[ki].replied => \E kr \in RepliesOf(t, i) : kr < kj

C7_Witness ==
    \E t \in Tasks :
        /\ Len(delivered[t]) = 2
        /\ IsValid(delivered[t][1])
        /\ IsValid(delivered[t][2])
        /\ delivered[t][1].event.pubkey = delivered[t][2].event.pubkey
        /\ RepliesOf(t, 1) # {}
        /\ CallsOf(t, 2) # {}

(***************************************************************************)
(* C8: the event one identity builds for another is parsed by the          *)
(* recipient into the message it was built from, and no identity other     *)
(* than the recipient recovers the message from it.                        *)
(***************************************************************************)
C8_RoundTrip ==
    \A p \in rt.parsed :
        /\ p.by = rt.to => (p.ok /\ p.msg = rt.msg)
        /\ p.by # rt.to => ~(p.ok /\ p.msg = rt.msg)

C8_Witness ==
    /\ rt.from # rt.to
    /\ \E p, q \in rt.parsed : p.by = rt.to /\ p.ok /\ q.by = rt.from /\ ~q.ok

(***************************************************************************)
(* C9: all successful NostrDlcHandler::new of one wallet name return the   *)
(* same identity, and the key file holds its secret from the first success *)
(* on.                                                                     *)
(***************************************************************************)
C9_KeyPersistence ==
    \A i \in DOMAIN newLog :
        newLog[i].ok =>
            /\ keyFile[newLog[i].wallet] = FileOf(newLog[i].identity.x)
            /\ \A j \in DOMAIN newLog :
                  newLog[j].ok /\ newLog[j].wallet = newLog[i].wallet
                  => newLog[j].identity = newLog[i].identity

C9_Witness ==
    \E i, j \in DOMAIN newLog :
        i < j /\ newLog[i].ok /\ newLog[j].ok /\ newLog[i].wallet = newLog[j].wallet

(***************************************************************************)
(* C10: NostrDlcHandler::new returns an error when the key file holds no   *)
(* valid secret or its read or write fails, and a call never changes the   *)
(* contents of a key file that exists.                                     *)
(***************************************************************************)
C10_KeystoreFailure ==
    [][Len(newLog') = Len(newLog) + 1 =>
        /\ keyFile[LastNew.wallet].exists =>
              keyFile'[LastNew.wallet] = keyFile[LastNew.wallet]
        /\ keyFile[LastNew.wallet].exists /\ IsErr(from_slice(keyFile[LastNew.wallet].bytes))
              => ~LastNew.ok /\ LastNew.identity = NoKey
        /\ LastNew.failed => ~LastNew.ok /\ LastNew.identity = NoKey
        /\ \A w \in WalletNames \ {LastNew.wallet} : keyFile'[w] = keyFile[w]]_vars

C10_Witness ==
    \E i \in DOMAIN newLog :
        /\ newLog[i].err = "InvalidSecretKey"
        /\ keyFile[newLog[i].wallet].exists
        /\ IsErr(from_slice(keyFile[newLog[i].wallet].bytes))

(***************************************************************************)
(* C11: an event whose kind is not the DLC kind makes the call return      *)
(* Ok(None): nothing is decrypted, the lock is not taken, the manager is   *)
(* not invoked and its state stays as it was.                              *)
(***************************************************************************)
C11_NonDlcEventIsNoOp ==
    /\ \A t \in Tasks :
          cur[t].event \in OtherKindEvents =>
              /\ ret[t] = Ret("Ok", NoReply)
              /\ pc[t] = "idle"
              /\ lock # t
              /\ CallsOf(t, Len(delivered[t])) = {}
    /\ \A t \in Tasks : \A i \in DOMAIN delivered[t] :
          delivered[t][i].event \in OtherKindEvents => CallsOf(t, i) = {}
    /\ (\A t \in Tasks : \A i \in DOMAIN delivered[t] :
            delivered[t][i].event \in OtherKindEvents)
          => (trace = << >> /\ outbox = << >> /\ manager \in ManagerStates)

C11_Witness ==
    \E t \in Tasks :
        /\ Len(delivered[t]) = 2
        /\ \A i \in DOMAIN delivered[t] :
              /\ delivered[t][i].event \in OtherKindEvents
              /\ delivered[t][i].event.content.iv
        /\ pc[t] = "idle"

(***************************************************************************)
(* C12: the subscription of listen() delivers only events of the DLC kind  *)
(* whose recipient tag is the local public key.                            *)
(***************************************************************************)
C12_SubscriptionIsForSelf ==
    \A e \in sub.received :
        /\ e.kind = DLC_MESSAGE_KIND
        /\ TagsOf(e, "p") = { PTag(XOnly(Self)) }

(***************************************************************************)
(* C13: when the manager rejects a message, the handler returns a          *)
(* rejection event addressed to the sender of the message.                 *)
(***************************************************************************)
C13_RejectionIsReported ==
    \A t \in Tasks :
        /\ pc[t] \in {"return", "publish", "idle"}
        /\ \E k \in CallsOf(t, Len(delivered[t])) : trace[k].res = "Err"
        => /\ ret[t].reply.some
           /\ TagsOf(ret[t].reply.v, "p") = { PTag(cur[t].event.pubkey) }

(***************************************************************************)
(* C14: an Offer event delivered again leaves the one offered-contract     *)
(* entry of its contract id, held for its sender, and no delivery of an    *)
(* Offer makes the handler return or publish a reply.                      *)
(***************************************************************************)
C14_IdempotentOffer ==
    \A t \in Tasks : \A i \in DOMAIN delivered[t] :
        IsValid(delivered[t][i])
        /\ ParsedBySelf[delivered[t][i].event].val.type = "Offer"
        => /\ RepliesOf(t, i) = {}
           /\ i = Len(delivered[t]) => ~ret[t].reply.some
           /\ \A k \in DOMAIN outbox :
                 ETag(delivered[t][i].event.id) \notin TagsOf(outbox[k], "e")
           /\ \A k \in CallsOf(t, i) :
                 trace[k].res = "Ok" =>
                     manager[trace[k].msg.cid] = ContractRecord("OfferReceived", trace[k].from)

\* the same Offer event handled twice, the manager accepting it both times
C14_Witness ==
    \E t, u \in Tasks : \E i \in DOMAIN delivered[t] : \E j \in DOMAIN delivered[u] :
        /\ << t, i >> # << u, j >>
        /\ delivered[t][i] = delivered[u][j]
        /\ IsValid(delivered[t][i])
        /\ ParsedBySelf[delivered[t][i].event].val.type = "Offer"
        /\ \E k \in CallsOf(t, i) : trace[k].res = "Ok"
        /\ \E k \in CallsOf(u, j) : trace[k].res = "Ok"
        /\ \A v \in Tasks : pc[v] = "idle"

(***************************************************************************)
(* C15: an event built by create_dlc_msg_event(to, event_id, msg) has the  *)
(* DLC kind, is authored by the local identity and carries its id over the *)
(* signed fields, has exactly one "p" tag, equal to `to`, and has an "e"   *)
(* tag exactly when event_id is Some, that tag being the given id.         *)
(***************************************************************************)
C15_OutboundEnvelopeShape ==
    rt.stage = "rt" /\ rt.event # NoEvent
    => /\ rt.event.kind = DLC_MESSAGE_KIND
       /\ rt.event.pubkey = XOnly(rt.from)
       /\ rt.event.id = EventIdOf(XOnly(rt.from), rt.event.kind, rt.event.tags, rt.event.content)
       /\ TagsOf(rt.event, "p") = { PTag(XOnly(rt.to)) }
       /\ Cardinality({ i \in DOMAIN rt.event.tags : rt.event.tags[i].t = "p" }) = 1
       /\ rt.ref.some <=> TagsOf(rt.event, "e") # {}
       /\ rt.ref.some =>
              /\ TagsOf(rt.event, "e") = { ETag(rt.ref.v) }
              /\ Cardinality({ i \in DOMAIN rt.event.tags : rt.event.tags[i].t = "e" }) = 1
       /\ \A i \in DOMAIN rt.event.tags : rt.event.tags[i].t \in {"p", "e"}

\* an event built with a reference, for a recipient other than the author
C15_Witness ==
    /\ rt.stage = "rt"
    /\ rt.event # NoEvent
    /\ rt.ref.some
    /\ rt.from # rt.to
    /\ Len(rt.event.tags) = 2

C17_NonEventNotificationsAreBenign ==
    /\ \A t \in Tasks :
          (delivered[t] # << >> /\ delivered[t][Len(delivered[t])].type # "Event") =>
              /\ ret[t] = Ret("Ok", NoReply)
              /\ pc[t] = "idle"
              /\ lock # t
    /\ \A t \in Tasks : \A i \in DOMAIN delivered[t] :
          delivered[t][i].type # "Event" => (CallsOf(t, i) = {} /\ RepliesOf(t, i) = {})
    /\ (\A t \in Tasks : \A i \in DOMAIN delivered[t] : delivered[t][i].type # "Event")
          => (trace = << >> /\ outbox = << >> /\ manager \in ManagerStates /\ lock = NoHolder)
    /\ \A t \in Tasks : \A i \in DOMAIN delivered[t] :
          (i > 1 /\ delivered[t][i - 1].type # "Event" /\ IsValid(delivered[t][i]) /\ Handled(t, i))
              => Cardinality(CallsOf(t, i)) = 1

\* a stop notification, then a valid event that the manager accepted
C17_Witness ==
    \E t \in Tasks :
        /\ Len(delivered[t]) = 2
        /\ delivered[t][1].type = "Stop"
        /\ IsValid(delivered[t][2])
        /\ pc[t] = "idle"
        /\ \E k \in CallsOf(t, 2) : trace[k].res = "Ok"

(***************************************************************************)
(* C18: a DLC-kind event that parses to a message reaches on_dlc_message   *)
(* exactly once, with the sender key of the event lifted with even parity  *)
(* as the counterparty; the call returns an outbound event exactly when    *)
(* the manager returned a message, and never more than one.                *)
(***************************************************************************)
C18_OneDispatchAtMostOneReply ==
    /\ \A t \in Tasks : \A i \in DOMAIN delivered[t] :
          /\ Cardinality(CallsOf(t, i)) <= 1
          /\ Cardinality(RepliesOf(t, i)) <= 1
          /\ (IsValid(delivered[t][i]) /\ Handled(t, i)) => Cardinality(CallsOf(t, i)) = 1
          /\ \A k \in CallsOf(t, i) :
                /\ IsValid(delivered[t][i])
                /\ trace[k].from = [x |-> delivered[t][i].event.pubkey.x, parity |-> "Even"]
                /\ trace[k].msg = ParsedBySelf[delivered[t][i].event].val
                /\ (RepliesOf(t, i) # {}) <=> (trace[k].res = "Ok" /\ trace[k].replied)
          /\ RepliesOf(t, i) # {} => CallsOf(t, i) # {}
    /\ \A t \in Tasks :
          ret[t].reply.some <=>
              /\ delivered[t] # << >>
              /\ \E k \in CallsOf(t, Len(delivered[t])) : trace[k].res = "Ok" /\ trace[k].replied
    /\ Len(outbox) <= Cardinality({ k \in DOMAIN trace : trace[k].op = "on_dlc_message" })

\* an event the manager answered, its reply published, and a second valid
\* event that the manager took without an answer to send
C18_Witness ==
    \E t, u \in Tasks : \E i \in DOMAIN delivered[t] : \E j \in DOMAIN delivered[u] :
        /\ << t, i >> # << u, j >>
        /\ \A v \in Tasks : pc[v] = "idle"
        /\ IsValid(delivered[t][i])
        /\ IsValid(delivered[u][j])
        /\ \E k \in CallsOf(t, i) : trace[k].res = "Ok" /\ trace[k].replied
        /\ \E k \in CallsOf(u, j) : ~trace[k].replied
        /\ Len(outbox) = 1

(***************************************************************************)
(* C19: the manager lock is held only by a task between taking it and the  *)
(* return of its call, whatever the manager answered; a task waiting for   *)
(* the lock gets it in the end, and every call comes to its return.        *)
(***************************************************************************)
C19_LockIsGivenBack ==
    /\ [](\A t \in Tasks : lock = t => pc[t] \in {"manager", "return"})
    /\ \A t \in Tasks : (pc[t] = "lock") ~> (pc[t] = "manager")
    /\ \A t \in Tasks : (pc[t] = "manager") ~> (pc[t] \in {"idle", "publish"} /\ lock # t)
    /\ <>[](lock = NoHolder)

\* a task waits for the lock while the holder's manager call has failed
C19_Witness ==
    \E t, u \in Tasks :
        /\ t # u
        /\ pc[u] = "lock"
        /\ pc[t] = "return"
        /\ lock = t
        /\ ret[t].tag = "Err"

====
